---------------------------- MODULE Spec2Model ----------------------------
(***************************************************************************)
(* A/B-testing simulator: src/ab_test_sim.py (functions generate_data,     *)
(* run_ab_test, conversion_summary and the command-line script) and        *)
(* src/app.py (the Streamlit dashboard script).                            *)
(*                                                                         *)
(* One process runs one program: a Python session that imports the three   *)
(* functions ("lib"), the command-line script ("cli"), or the dashboard    *)
(* ("dash", whose script is re-run on every widget change).  numpy's       *)
(* global generator is process state.  Probabilities are held in percent   *)
(* (30 is 0.30); real results are held as exact fractions.                 *)
(***************************************************************************)
EXTENDS Integers, Sequences, FiniteSets

VARIABLES
    prog,      \* the program this process runs: "lib", "cli" or "dash"
    rng,       \* state of numpy's global generator (np.random)
    call,      \* lib: the last generate_data call (arguments, generator state before, outcome)
    df,        \* lib: the DataFrame the last generate_data call returned
    summary,   \* lib: outcome of conversion_summary(df)
    test,      \* lib: outcome of run_ab_test(df)
    prev,      \* lib: an earlier generate_data + run_ab_test run kept by the caller
    cli,       \* cli: outcome of the command-line script
    dash       \* dash: widget values and what the last script run displayed

vars == <<prog, rng, call, df, summary, test, prev, cli, dash>>

---------------------------------------------------------------------------
(* Bounds of the model *)

\* largest sample size given to generate_data and to the command-line script
MaxN == 2

\* period of the modelled generator: long enough for every outcome of MaxN draws
TapeLen == MaxN + 1

\* the uniform deviates a generator state can hold, in thousandths of [0, 1)
ULevels == {0, 999}

\* sample sizes, valid and negative
NVals == -1 .. MaxN

\* probabilities in percent: below 0, the ends, both sides of 0.5, above 1
PVals == {-1, 0, 30, 70, 100, 101}

\* sample sizes typed into the dashboard's number inputs (0 .. 10000)
DashSizes == {0, 1, 100, 119}

\* positions of the dashboard's sliders (0 .. 100 percent)
DashRates == {0, 30, 100}

---------------------------------------------------------------------------
(* Exact arithmetic on fractions [n, d], d > 0, in lowest terms *)

Abs(x) == IF x < 0 THEN -x ELSE x

Sgn(x) == IF x < 0 THEN -1 ELSE IF x = 0 THEN 0 ELSE 1

RECURSIVE GCD(_, _)
GCD(a, b) == IF b = 0 THEN a ELSE GCD(b, a % b)

Frac(n, d) ==
    LET g == GCD(Abs(n), d)
    IN  [n |-> n \div g, d |-> d \div g]

FSub(a, b) == Frac(a.n * b.d - b.n * a.d, a.d * b.d)

FAdd(a, b) == Frac(a.n * b.d + b.n * a.d, a.d * b.d)

FMul(a, b) ==
    LET g1 == GCD(Abs(a.n), b.d)
        g2 == GCD(Abs(b.n), a.d)
    IN  Frac((a.n \div g1) * (b.n \div g2), (a.d \div g2) * (b.d \div g1))

FInv(a) == [n |-> a.d, d |-> a.n]

\* a/b < c/d for a, c >= 0 and b, d > 0, by the continued-fraction expansion
RECURSIVE FracLT(_, _, _, _)
FracLT(a, b, c, d) ==
    LET qa == a \div b
        qc == c \div d
        ra == a % b
        rc == c % d
    IN  IF qa # qc THEN qa < qc
        ELSE IF rc = 0 THEN FALSE
        ELSE IF ra = 0 THEN TRUE
        ELSE FracLT(d, rc, b, ra)

RECURSIVE SeqSum(_)
SeqSum(s) == IF s = <<>> THEN 0 ELSE Head(s) + SeqSum(Tail(s))

Max(a, b) == IF a > b THEN a ELSE b

---------------------------------------------------------------------------
(* numpy's global generator.  A state is the cycle of uniform deviates it  *)
(* will deliver; a draw consumes the first and rotates the cycle.          *)

RngStates == [1 .. TapeLen -> ULevels]

\* the i-th uniform deviate delivered from state r (i >= 1)
Uniform(r, i) == r[((i - 1) % TapeLen) + 1]

\* the state after k draws
Advance(r, k) == [i \in 1 .. TapeLen |-> Uniform(r, i + k)]

\* one Bernoulli draw from the uniform deviate u (thousandths), p in percent:
\* numpy inverts the binomial CDF for p <= 0.5 and mirrors it for p > 0.5
Bit(u, p) ==
    IF p <= 50
    THEN (IF u > 1000 - 10 * p THEN 1 ELSE 0)
    ELSE (IF u <= 10 * p THEN 1 ELSE 0)

\* BinomialValid without the range check on p
BinomialValid_size_only(p, n) == n >= 0

\* np.random.binomial(1, p, n): ValueError for n < 0 or p outside [0, 1],
\* else the array of n draws
BinomialValid(p, n) == n >= 0 /\ p >= 0 /\ p <= 100

Binomial(r, p, n) == [i \in 1 .. n |-> Bit(Uniform(r, i), p)]

\* Binomial(r, p, n).sum(), by whole periods of the generator
BinomialSum(r, p, n) ==
    LET cyc  == SeqSum([i \in 1 .. TapeLen |-> Bit(Uniform(r, i), p)])
        rest == SeqSum([i \in 1 .. (n % TapeLen) |-> Bit(Uniform(r, i), p)])
    IN  (n \div TapeLen) * cyc + rest

---------------------------------------------------------------------------
(* DataFrames: a sequence of rows [group, converted] *)

Rows(g, arr) == [i \in 1 .. Len(arr) |-> [group |-> g, converted |-> arr[i]]]

\* df.groupby('group')['converted']: the labels present, sorted, and each one's column
GroupKeys(d) ==
    SelectSeq(<<"A", "B">>, LAMBDA g : \E i \in 1 .. Len(d) : d[i].group = g)

GroupColumn(d, g) ==
    LET rows == SelectSeq(d, LAMBDA row : row.group = g)
    IN  [i \in 1 .. Len(rows) |-> rows[i].converted]

GroupSum(d) ==
    LET keys == GroupKeys(d)
    IN  [i \in 1 .. Len(keys) |-> SeqSum(GroupColumn(d, keys[i]))]

GroupCount(d) ==
    LET keys == GroupKeys(d)
    IN  [i \in 1 .. Len(keys) |-> Len(GroupColumn(d, keys[i]))]

---------------------------------------------------------------------------
(* generate_data(n_A, n_B, p_A, p_B) run from generator state r: what it   *)
(* raises or returns, and the generator state it leaves                    *)

\* generate_data with the two sample sizes exchanged
generate_data_sizes_swapped(r, n_A, n_B, p_A, p_B) ==
    IF ~BinomialValid(p_A, n_B)
    THEN [kind |-> "ValueError", df |-> <<>>, rng |-> r]
    ELSE IF ~BinomialValid(p_B, n_A)
    THEN [kind |-> "ValueError", df |-> <<>>, rng |-> Advance(r, n_B)]
    ELSE [kind |-> "ok",
          df   |-> Rows("A", Binomial(r, p_A, n_B))
                   \o Rows("B", Binomial(Advance(r, n_B), p_B, n_A)),
          rng  |-> Advance(r, n_A + n_B)]

\* generate_data drawing from a generator captured at the session's first
\* call, which np.random.seed no longer reaches
generate_data_captured_rng(r, n_A, n_B, p_A, p_B) ==
    LET r0 == IF call.kind = "none" THEN r ELSE call.rng0
    IN  IF ~BinomialValid(p_A, n_A) \/ ~BinomialValid(p_B, n_B)
        THEN [kind |-> "ValueError", df |-> <<>>, rng |-> r]
        ELSE [kind |-> "ok",
              df   |-> Rows("A", Binomial(r0, p_A, n_A))
                       \o Rows("B", Binomial(Advance(r0, n_A), p_B, n_B)),
              rng  |-> Advance(r, n_A + n_B)]

generate_data(r, n_A, n_B, p_A, p_B) ==
    IF ~BinomialValid(p_A, n_A)
    THEN [kind |-> "ValueError", df |-> <<>>, rng |-> r]
    ELSE IF ~BinomialValid(p_B, n_B)
    THEN [kind |-> "ValueError", df |-> <<>>, rng |-> Advance(r, n_A)]
    ELSE LET group_A == Binomial(r, p_A, n_A)
             group_B == Binomial(Advance(r, n_A), p_B, n_B)
         IN  [kind |-> "ok",
              df   |-> Rows("A", group_A) \o Rows("B", group_B),
              rng  |-> Advance(r, n_A + n_B)]

---------------------------------------------------------------------------
(* statsmodels' proportions_ztest(count, nobs) with its defaults           *)
(* (value=None, alternative='two-sided', prop_var=False)                   *)

NoStat == [kind |-> "none", sgn |-> 0, sq |-> [n |-> 0, d |-> 1]]

NoPval == [kind |-> "none", absz_sq |-> [n |-> 0, d |-> 1]]

\* value / std_diff in floating point, std_diff = sqrt(var_) (NaN for a
\* negative var_): the statistic is held as its sign and its square
ZStat(diff, var_) ==
    IF var_.n < 0
    THEN [kind |-> "nan", sgn |-> 0, sq |-> [n |-> 0, d |-> 1]]
    ELSE IF var_.n = 0
    THEN IF diff.n = 0
         THEN [kind |-> "nan", sgn |-> 0, sq |-> [n |-> 0, d |-> 1]]
         ELSE [kind |-> "inf", sgn |-> Sgn(diff.n), sq |-> [n |-> 0, d |-> 1]]
    ELSE [kind |-> "finite", sgn |-> Sgn(diff.n),
          sq |-> FMul(FMul(diff, diff), FInv(var_))]

\* norm.sf(abs(zstat)) * 2: a strictly decreasing function of |zstat|, held
\* as zstat squared
TwoSidedPval(z) ==
    IF z.kind = "nan" THEN [kind |-> "nan", absz_sq |-> z.sq]
    ELSE IF z.kind = "inf" THEN [kind |-> "zero", absz_sq |-> z.sq]
    ELSE [kind |-> "finite", absz_sq |-> z.sq]

proportions_ztest(count, nobs) ==
    LET k_sample == Len(count)
    IN  IF k_sample = 1
        THEN [kind |-> "ValueError", stat |-> NoStat, pval |-> NoPval]
        ELSE IF k_sample # 2
        THEN [kind |-> "NotImplementedError", stat |-> NoStat, pval |-> NoPval]
        ELSE LET prop      == [i \in 1 .. 2 |-> Frac(count[i], nobs[i])]
                 diff      == FSub(prop[1], prop[2])
                 p_pooled  == Frac(count[1] + count[2], nobs[1] + nobs[2])
                 nobs_fact == FAdd(Frac(1, nobs[1]), Frac(1, nobs[2]))
                 var_      == FMul(FMul(p_pooled, FSub(Frac(1, 1), p_pooled)), nobs_fact)
                 zstat     == ZStat(diff, var_)
             IN  [kind |-> "ok", stat |-> zstat, pval |-> TwoSidedPval(zstat)]

\* pval < 0.05: NaN compares false; otherwise |z| > 1.959964, z^2 > 3.841459
PvalBelow05(pval) ==
    \/ pval.kind = "zero"
    \/ /\ pval.kind = "finite"
       /\ FracLT(3841459, 1000000, pval.absz_sq.n, pval.absz_sq.d)

---------------------------------------------------------------------------
(* run_ab_test(df) and conversion_summary(df) *)

\* run_ab_test with the first group's count taken for both groups
run_ab_test_first_count(d) ==
    LET conv_counts  == GroupSum(d)
        total_counts == [i \in 1 .. Len(conv_counts) |-> GroupCount(d)[1]]
    IN  proportions_ztest(conv_counts, total_counts)

\* run_ab_test with the groups in descending label order
run_ab_test_reversed(d) ==
    LET c == GroupSum(d)
        n == GroupCount(d)
    IN  proportions_ztest([i \in 1 .. Len(c) |-> c[Len(c) + 1 - i]],
                          [i \in 1 .. Len(n) |-> n[Len(n) + 1 - i]])

run_ab_test(d) ==
    LET conv_counts  == GroupSum(d)
        total_counts == GroupCount(d)
    IN  proportions_ztest(conv_counts, total_counts)

conversion_summary(d) ==
    LET keys == GroupKeys(d)
        sum_ == GroupSum(d)
        cnt  == GroupCount(d)
    IN  [i \in 1 .. Len(keys) |->
            [group |-> keys[i], sum |-> sum_[i], count |-> cnt[i],
             conversion_rate |-> Frac(sum_[i], cnt[i])]]

---------------------------------------------------------------------------
(* The Python session that imports ab_test_sim ("lib") *)

NoCall == [kind |-> "none", n_A |-> 0, n_B |-> 0, p_A |-> 0, p_B |-> 0,
           rng0 |-> <<>>]

NoSummary == [kind |-> "none", rows |-> <<>>]

NoTest == [kind |-> "none", stat |-> NoStat, pval |-> NoPval]

NoRun == [kind |-> "none", call |-> NoCall, df |-> <<>>, test |-> NoTest]

\* df = generate_data(n_A, n_B, p_A, p_B): a new run; nothing is bound when it raises
GenerateData(n_A, n_B, p_A, p_B) ==
    /\ prog = "lib"
    /\ LET g == generate_data(rng, n_A, n_B, p_A, p_B)
       IN  /\ call' = [kind |-> g.kind, n_A |-> n_A, n_B |-> n_B,
                       p_A |-> p_A, p_B |-> p_B, rng0 |-> rng]
           /\ df' = g.df
           /\ rng' = g.rng
    /\ summary' = NoSummary
    /\ test' = NoTest
    /\ UNCHANGED <<prog, prev, cli, dash>>

\* summary = conversion_summary(df)
ConversionSummary ==
    /\ prog = "lib"
    /\ call.kind = "ok"
    /\ summary.kind = "none"
    /\ summary' = [kind |-> "ok", rows |-> conversion_summary(df)]
    /\ UNCHANGED <<prog, rng, call, df, test, prev, cli, dash>>

\* stat, pval = run_ab_test(df)
RunAbTest ==
    /\ prog = "lib"
    /\ call.kind = "ok"
    /\ test.kind = "none"
    /\ test' = run_ab_test(df)
    /\ UNCHANGED <<prog, rng, call, df, summary, prev, cli, dash>>

\* np.random.seed(s), called by the session before a run
Seed(s) ==
    /\ prog = "lib"
    /\ rng' = s
    /\ UNCHANGED <<prog, call, df, summary, test, prev, cli, dash>>

\* the session stores the finished run (dataset and test outcome) and starts over
Keep ==
    /\ prog = "lib"
    /\ call.kind = "ok"
    /\ test.kind # "none"
    /\ prev' = [kind |-> "run", call |-> call, df |-> df, test |-> test]
    /\ call' = NoCall
    /\ df' = <<>>
    /\ summary' = NoSummary
    /\ test' = NoTest
    /\ UNCHANGED <<prog, rng, cli, dash>>

---------------------------------------------------------------------------
(* The command-line script: ab_test_sim.py run as __main__ *)

NoCli == [kind |-> "none", n_A |-> 0, n_B |-> 0, p_A |-> 0, p_B |-> 0,
          summary |-> <<>>, stat |-> NoStat, pval |-> NoPval, verdict |-> "none"]

\* the verdict printed for pval
CliVerdict(pval) ==
    IF PvalBelow05(pval)
    THEN "Statistically Significant"
    ELSE "Not Statistically Significant"

Main(n_A, n_B, p_A, p_B) ==
    /\ prog = "cli"
    /\ cli.kind = "none"
    /\ LET data == generate_data(rng, n_A, n_B, p_A, p_B)
           t    == run_ab_test(data.df)
           died(k) == [NoCli EXCEPT !.kind = k, !.n_A = n_A, !.n_B = n_B,
                                    !.p_A = p_A, !.p_B = p_B]
       IN  /\ rng' = data.rng
           /\ cli' = IF data.kind # "ok" THEN died(data.kind)
                     ELSE IF t.kind # "ok" THEN died(t.kind)
                     ELSE [kind |-> "ok", n_A |-> n_A, n_B |-> n_B,
                           p_A |-> p_A, p_B |-> p_B,
                           summary |-> conversion_summary(data.df),
                           stat |-> t.stat, pval |-> t.pval,
                           verdict |-> CliVerdict(t.pval)]
    /\ UNCHANGED <<prog, call, df, summary, test, prev, dash>>

---------------------------------------------------------------------------
(* The dashboard: app.py, re-run by Streamlit whenever a widget changes *)

\* first sample size of the sweep
SweepFloor == 100

\* number of sweep points
SweepPoints == 20

\* np.linspace(start, stop, num, dtype=int): evenly spaced, truncated, the
\* last point set to stop
Linspace(start, stop, num) ==
    [i \in 1 .. num |->
        IF i = num THEN stop
        ELSE (start * (num - 1) + (i - 1) * (stop - start)) \div (num - 1)]

\* the gate without the checks on the rates
Gate_sizes_only(n_A, n_B, p_A, p_B) == n_A > 0 /\ n_B > 0

\* the input gate of the script
Gate(n_A, n_B, p_A, p_B) == n_A > 0 /\ n_B > 0 /\ p_A > 0 /\ p_B > 0

\* the sum and count per group label of the dashboard's DataFrame, whose
\* rows are n_A draws labelled A then n_B draws labelled B
DashGroups(r, n_A, n_B, p_A, p_B) ==
    LET a == [sum |-> BinomialSum(r, p_A, n_A), count |-> n_A]
        b == [sum |-> BinomialSum(Advance(r, n_A), p_B, n_B), count |-> n_B]
    IN  SelectSeq(<<a, b>>, LAMBDA g : g.count > 0)

\* the verdict written as "not (pval >= 0.05)", which NaN passes
DashVerdict_negated(pval) ==
    IF pval.kind = "nan" \/ PvalBelow05(pval)
    THEN "Statistically Significant"
    ELSE "Not Statistically Significant"

\* the verdict displayed for pval
DashVerdict(pval) ==
    IF PvalBelow05(pval)
    THEN "Statistically Significant"
    ELSE "Not Statistically Significant"

\* one pass of the sweep loop at generator state r
SweepPoint(r, size, p_A, p_B) ==
    LET counts == <<BinomialSum(r, p_A, size),
                    BinomialSum(Advance(r, size), p_B, size)>>
        totals == <<size, size>>
    IN  [size |-> size, counts |-> counts, totals |-> totals,
         pv |-> proportions_ztest(counts, totals).pval]

\* the sweep loop from generator state r: the points for sizes[i .. ], drawn
\* one after the other, `used` draws having been made by the earlier passes
RECURSIVE Sweep(_, _, _, _, _, _)
Sweep(r, sizes, i, used, p_A, p_B) ==
    IF i > Len(sizes) THEN <<>>
    ELSE <<SweepPoint(Advance(r, used), sizes[i], p_A, p_B)>>
         \o Sweep(r, sizes, i + 1, used + 2 * sizes[i], p_A, p_B)

NoDash == [n_A |-> 0, n_B |-> 0, p_A |-> 0, p_B |-> 0, shown |-> "info",
           conv_counts |-> <<>>, total_counts |-> <<>>,
           stat |-> NoStat, pval |-> NoPval, verdict |-> "none",
           sample_sizes |-> <<>>, sweep |-> <<>>, drawn |-> 0]

\* one run of the script with the widget values (n_A, n_B, p_A, p_B)
DashRun(n_A, n_B, p_A, p_B) ==
    /\ prog = "dash"
    /\ LET inputs == [NoDash EXCEPT !.n_A = n_A, !.n_B = n_B,
                                    !.p_A = p_A, !.p_B = p_B]
           groups == DashGroups(rng, n_A, n_B, p_A, p_B)
           conv_counts  == [i \in 1 .. Len(groups) |-> groups[i].sum]
           total_counts == [i \in 1 .. Len(groups) |-> groups[i].count]
           t == proportions_ztest(conv_counts, total_counts)
           sample_sizes == Linspace(SweepFloor, Max(n_A, n_B), SweepPoints)
           r1 == Advance(rng, n_A + n_B)
           points == Sweep(r1, sample_sizes, 1, 0, p_A, p_B)
           swept  == 2 * SeqSum(sample_sizes)
       IN  IF Gate(n_A, n_B, p_A, p_B)
           THEN IF t.kind # "ok"
                THEN /\ dash' = [inputs EXCEPT !.shown = t.kind,
                                               !.conv_counts = conv_counts,
                                               !.total_counts = total_counts,
                                               !.drawn = n_A + n_B]
                     /\ rng' = r1
                ELSE /\ dash' = [inputs EXCEPT !.shown = "results",
                                               !.conv_counts = conv_counts,
                                               !.total_counts = total_counts,
                                               !.stat = t.stat,
                                               !.pval = t.pval,
                                               !.verdict = DashVerdict(t.pval),
                                               !.sample_sizes = sample_sizes,
                                               !.sweep = points,
                                               !.drawn = n_A + n_B + swept]
                     /\ rng' = Advance(r1, swept)
           ELSE /\ dash' = inputs
                /\ rng' = rng
    /\ UNCHANGED <<prog, call, df, summary, test, prev, cli>>

\* Streamlit re-runs the script when one widget changes (or on a plain rerun)
WidgetChange(n_A, n_B, p_A, p_B) ==
    Cardinality({w \in {"n_A", "n_B", "p_A", "p_B"} :
        [n_A |-> n_A, n_B |-> n_B, p_A |-> p_A, p_B |-> p_B][w] # dash[w]}) <= 1

---------------------------------------------------------------------------
(* Specifications *)

Init ==
    /\ prog \in {"lib", "cli", "dash"}
    /\ rng \in RngStates
    /\ call = NoCall
    /\ df = <<>>
    /\ summary = NoSummary
    /\ test = NoTest
    /\ prev = NoRun
    /\ cli = NoCli
    /\ dash = NoDash

Next ==
    \/ /\ prog = "lib" /\ call.kind = "none"
       /\ \E n_A, n_B \in NVals, p_A, p_B \in PVals : GenerateData(n_A, n_B, p_A, p_B)
    \/ ConversionSummary
    \/ RunAbTest
    \/ /\ prog = "cli" /\ cli.kind = "none"
       /\ \E n_A, n_B \in NVals, p_A, p_B \in PVals : Main(n_A, n_B, p_A, p_B)
    \/ /\ prog = "dash"
       /\ \E n_A, n_B \in DashSizes, p_A, p_B \in DashRates :
             WidgetChange(n_A, n_B, p_A, p_B) /\ DashRun(n_A, n_B, p_A, p_B)

Spec == Init /\ [][Next]_vars

\* the repeated-run session: seeded runs of generate_data + run_ab_test, one
\* of them stored for comparison
RepeatSizes == 1 .. MaxN

RepeatRates == {30, 70}

\* the seeds the session uses
SeedStates == {r \in RngStates : \A i \in 3 .. TapeLen : r[i] = r[1]}

InitRepeat == Init /\ prog = "lib" /\ rng \in SeedStates

NextRepeat ==
    \/ \E s \in SeedStates : Seed(s)
    \/ \E n_A \in RepeatSizes, p_A \in RepeatRates : GenerateData(n_A, MaxN, p_A, 70)
    \/ RunAbTest
    \/ Keep

SpecRepeat == InitRepeat /\ [][NextRepeat]_vars

---------------------------------------------------------------------------
(* Claims *)

InUnit(p) == p > 0 /\ p < 100

Converted(d, g) == Cardinality({i \in 1 .. Len(d) : d[i].group = g /\ d[i].converted = 1})

\* C1: for n_A, n_B > 0 and p_A, p_B strictly between 0 and 1, whatever the
\* draws, the summary of the generated dataset has exactly one row per group,
\* with count n_A for A and n_B for B, a sum between 0 and the count, and so
\* a conversion rate in [0, 1].
C1_SummaryCounts ==
    ( /\ prog = "lib" /\ call.kind = "ok" /\ summary.kind = "ok"
      /\ call.n_A > 0 /\ call.n_B > 0 /\ InUnit(call.p_A) /\ InUnit(call.p_B) )
    => /\ Len(summary.rows) = 2
       /\ summary.rows[1].group = "A" /\ summary.rows[2].group = "B"
       /\ summary.rows[1].count = call.n_A
       /\ summary.rows[2].count = call.n_B
       /\ \A i \in 1 .. 2 :
            /\ 0 <= summary.rows[i].sum
            /\ summary.rows[i].sum <= summary.rows[i].count
            /\ 0 <= summary.rows[i].conversion_rate.n
            /\ summary.rows[i].conversion_rate.n <= summary.rows[i].conversion_rate.d

\* a summary of unequal groups where every A trial converted and no B trial did
C1_Witness ==
    /\ prog = "lib" /\ call.kind = "ok" /\ summary.kind = "ok"
    /\ call.n_A = MaxN /\ call.n_B = 1 /\ InUnit(call.p_A) /\ InUnit(call.p_B)
    /\ summary.rows[1].sum = MaxN /\ summary.rows[2].sum = 0

\* C2: when a group has no observations, conversion_summary and run_ab_test
\* signal an error instead of returning a result.
C2_InsufficientData ==
    ( prog = "lib" /\ call.kind = "ok" /\ (call.n_A = 0 \/ call.n_B = 0) )
    => /\ summary.kind # "ok"
       /\ test.kind # "ok"

PooledDegenerate(counts, totals) ==
    \/ counts[1] + counts[2] = 0
    \/ counts[1] + counts[2] = totals[1] + totals[2]

IsNumber(x) == x.kind \in {"finite", "zero"}

\* C3: whenever the pooled proportion is 0 or 1 the test signals an error and
\* never returns a NaN or infinite statistic or p-value: in run_ab_test, in
\* the dashboard's main test and at every point of its sweep.
C3_DegenerateInput ==
    /\ ( /\ prog = "lib" /\ call.kind = "ok" /\ test.kind # "none"
         /\ call.n_A > 0 /\ call.n_B > 0
         /\ PooledDegenerate(GroupSum(df), GroupCount(df)) )
       => test.kind = "DegenerateInput"
    /\ test.kind = "ok" => IsNumber(test.stat) /\ IsNumber(test.pval)
    /\ dash.shown = "results" =>
         /\ IsNumber(dash.stat) /\ IsNumber(dash.pval)
         /\ \A i \in 1 .. Len(dash.sweep) : IsNumber(dash.sweep[i].pv)

ArgsValid(c) ==
    /\ c.n_A >= 0 /\ c.n_B >= 0
    /\ c.p_A >= 0 /\ c.p_A <= 100
    /\ c.p_B >= 0 /\ c.p_B <= 100

\* C4: generate_data with a negative sample size or a probability outside
\* [0, 1] fails with a ValueError and returns no dataset, not even the valid
\* group's; with every argument in range it raises nothing.
C4_InvalidParameter ==
    /\ (prog = "lib" /\ call.kind # "none") =>
         /\ ~ArgsValid(call) => call.kind = "ValueError" /\ df = <<>>
         /\ ArgsValid(call) => call.kind = "ok" /\ Len(df) = call.n_A + call.n_B
    /\ (prog = "cli" /\ cli.kind # "none" /\ ~ArgsValid(cli)) =>
         cli.kind = "ValueError" /\ cli.summary = <<>>

\* a call whose group A is valid and non-empty and whose group B is not
C4_Witness ==
    /\ prog = "lib" /\ call.kind = "ValueError"
    /\ call.n_A = MaxN /\ InUnit(call.p_A) /\ call.n_B >= 0 /\ call.p_B > 100

\* the dataset with the two group labels exchanged
SwapGroups(d) ==
    [i \in 1 .. Len(d) |->
        [group |-> IF d[i].group = "A" THEN "B" ELSE "A", converted |-> d[i].converted]]

\* C5: exchanging the two groups negates the z-statistic and leaves |z| and
\* the p-value unchanged.
C5_SwapSymmetry ==
    ( prog = "lib" /\ call.kind = "ok" /\ test.kind = "ok" /\ test.stat.kind = "finite" )
    => LET sw == run_ab_test(SwapGroups(df))
       IN  /\ sw.kind = "ok" /\ sw.stat.kind = "finite"
           /\ sw.stat.sgn = -test.stat.sgn
           /\ sw.stat.sq = test.stat.sq
           /\ sw.pval = test.pval

\* a test of unequal groups with a non-zero statistic
C5_Witness ==
    /\ prog = "lib" /\ test.kind = "ok" /\ test.stat.kind = "finite"
    /\ call.n_A # call.n_B /\ test.stat.sgn = 1

C7_ZFormula ==
    LET nA == call.n_A
        nB == call.n_B
        xA == Converted(df, "A")
        xB == Converted(df, "B")
        P  == xA + xB
        N  == nA + nB
        D  == xA * nB - xB * nA
    IN  ( /\ prog = "lib" /\ call.kind = "ok" /\ test.kind # "none"
          /\ nA > 0 /\ nB > 0 /\ P > 0 /\ P < N )
        => /\ test.kind = "ok" /\ test.stat.kind = "finite"
           /\ test.stat.sgn = Sgn(D)
           /\ test.stat.sq.n * P * (N - P) * N * (nA * nB) * (nA * nB)
                = D * D * test.stat.sq.d * N * N * (nA * nB)

\* a test where B converts better than A, on unequal groups
C7_Witness ==
    /\ prog = "lib" /\ call.kind = "ok" /\ test.kind = "ok"
    /\ test.stat.kind = "finite" /\ test.stat.sgn = -1
    /\ call.n_A # call.n_B

Verdicts == {"Statistically Significant", "Not Statistically Significant"}

\* C8: both front ends show exactly one verdict for a test that was run,
\* "significant" exactly when the p-value is below 0.05, and so the same
\* verdict for the same p-value.
C8_Verdict ==
    /\ cli.kind = "ok" =>
         /\ cli.verdict \in Verdicts
         /\ cli.verdict = "Statistically Significant" <=> PvalBelow05(cli.pval)
    /\ dash.shown = "results" =>
         /\ dash.verdict \in Verdicts
         /\ dash.verdict = "Statistically Significant" <=> PvalBelow05(dash.pval)
    /\ cli.kind # "ok" => cli.verdict = "none"
    /\ dash.shown # "results" => dash.verdict = "none"

\* the dashboard showing a significant result
C8_Witness ==
    /\ dash.shown = "results" /\ dash.verdict = "Statistically Significant"
    /\ dash.pval.kind = "finite"

\* C9: a sweep has exactly 20 points whose sample sizes are non-decreasing,
\* start at 100, end at max(n_A, n_B) and never exceed it, each point drawn
\* with exactly that size for both groups.
C9_SweepSizes ==
    dash.shown = "results" =>
        LET sizes == dash.sample_sizes
            top   == Max(dash.n_A, dash.n_B)
        IN  /\ Len(sizes) = 20 /\ Len(dash.sweep) = 20
            /\ sizes[1] = 100 /\ sizes[20] = top
            /\ \A i \in 1 .. 19 : sizes[i] <= sizes[i + 1]
            /\ \A i \in 1 .. 20 : sizes[i] <= top
            /\ \A i \in 1 .. 20 : dash.sweep[i].totals = <<sizes[i], sizes[i]>>

GateOpen(d) == d.n_A > 0 /\ d.n_B > 0 /\ d.p_A > 0 /\ d.p_B > 0

\* C10: the dashboard generates, tests and sweeps exactly when all four
\* inputs are positive; otherwise it draws nothing, tests nothing and shows
\* the message.  Every test it runs has at least one observation per group.
C10_Gate ==
    /\ [](prog = "dash" =>
            /\ dash.shown = "results" <=> GateOpen(dash)
            /\ ~GateOpen(dash) =>
                 /\ dash.shown = "info" /\ dash.drawn = 0
                 /\ dash.stat = NoStat /\ dash.pval = NoPval
                 /\ dash.conv_counts = <<>> /\ dash.sweep = <<>>
            /\ GateOpen(dash) =>
                 /\ dash.total_counts = <<dash.n_A, dash.n_B>>
                 /\ Len(dash.sweep) = SweepPoints
                 /\ \A i \in 1 .. Len(dash.sweep) :
                      dash.sweep[i].totals[1] >= 1 /\ dash.sweep[i].totals[2] >= 1)
    /\ [][(prog = "dash" /\ ~GateOpen(dash')) => rng' = rng]_vars

\* a run that passed the gate with one observation per group
C10_Witness ==
    /\ prog = "dash" /\ dash.shown = "results"
    /\ dash.n_A = 1 /\ dash.n_B = 1
    /\ \E i \in 1 .. Len(dash.sweep) : dash.sweep[i].totals = <<1, 1>>

====
